---- MODULE Spec2Model ----
(***************************************************************************)
(* Model of the scrolling terrain program (multiple_lights.cpp): the       *)
(* terrain generator (generateTerrain, sampleHeight) and the render loop   *)
(* of main that regenerates the mesh when the scroll offset moves.         *)
(*                                                                         *)
(* Floats are fixed-point integers.  Lengths (scale, offsets, positions)   *)
(* are counted in quanta; noise values in units of 1/NoiseOne; octave      *)
(* amplitudes in units of 1/One; normals in units of 1/NormOne; texture    *)
(* coordinates in units of 1/TexOne.  The IEEE not-a-number is the value   *)
(* NaN, which every arithmetic helper propagates.                          *)
(***************************************************************************)
EXTENDS Integers, Sequences, FiniteSets, TLC

VARIABLES
    \* ---- generator called directly (the arguments of the last call) ----
    gN, gScale, gOffsetX, gOffsetZ, gAmplitude, gFreq,
    vertices, indices,      \* the caller's output vectors, reused by every call
    heights,                \* the elevation grid built by the last call
    calls,                  \* consecutive calls made with the present arguments
    outcome,                \* how the last call ended
    \* ---- render loop of main ----
    pc,                     \* position of main
    keys,                   \* key states last reported by glfwPollEvents
    deltaTime,
    terrainOffsetX, terrainOffsetZ,
    lastOffsetX, lastOffsetZ,
    lastInit,               \* the function-local statics have been initialised
    terrainVertices, terrainIndices, terrainIndexCount,
    vbo, ebo,               \* contents of the GL_ARRAY_BUFFER / GL_ELEMENT_ARRAY_BUFFER
    shouldClose,
    regens,                 \* calls of generateTerrain since the frame (or main) began
    uploads,                \* uploads of vertex data since the frame (or main) began
    usedOffsetX, usedOffsetZ \* offsets passed to main's last generateTerrain call

genVars == <<gN, gScale, gOffsetX, gOffsetZ, gAmplitude, gFreq,
             vertices, indices, heights, calls, outcome>>
loopVars == <<pc, keys, deltaTime, terrainOffsetX, terrainOffsetZ,
              lastOffsetX, lastOffsetZ, lastInit,
              terrainVertices, terrainIndices, terrainIndexCount,
              vbo, ebo, shouldClose, regens, uploads,
              usedOffsetX, usedOffsetZ>>
vars == <<genVars, loopVars>>

----------------------------------------------------------------------------
(* Bounds of the model *)

MaxN == 3            \* grid resolutions 0..MaxN for direct calls
MaxCalls == 2        \* repeated calls with unchanged arguments
MaxOffset == 120     \* |terrainOffsetX|, |terrainOffsetZ| in the render loop
MaxDelta == 2        \* frame times 0..MaxDelta

----------------------------------------------------------------------------
(* Fixed-point float arithmetic *)

NaN == -1000000
One == 32            \* 1.0f of the octave amplitude `amp`
NoiseOne == 4        \* 1.0f of a noise value
NormOne == 100       \* 1.0f of a normal component
TexOne == 60         \* 1.0f of a texture coordinate
HOne == One * NoiseOne   \* 1.0f of the accumulated `height`

IsNaN(a) == a = NaN
FAdd(a, b) == IF IsNaN(a) \/ IsNaN(b) THEN NaN ELSE a + b
FSub(a, b) == IF IsNaN(a) \/ IsNaN(b) THEN NaN ELSE a - b
FMul(a, b) == IF IsNaN(a) \/ IsNaN(b) THEN NaN ELSE a * b
Abs(a) == IF a < 0 THEN -a ELSE a
Min(a, b) == IF a < b THEN a ELSE b

RECURSIVE SqrtIter(_, _, _)
SqrtIter(n, lo, hi) ==
    IF lo >= hi THEN lo
    ELSE LET mid == (lo + hi + 1) \div 2
         IN  IF mid * mid <= n THEN SqrtIter(n, mid, hi)
                               ELSE SqrtIter(n, lo, mid - 1)
\* floor of the square root of n >= 0
ISqrt(n) == SqrtIter(n, 0, Min(n, 46340))

\* integer division rounding toward zero, as a float quotient stored in
\* fixed point keeps the sign of its numerator
Quot(a, b) == IF a >= 0 THEN a \div b ELSE -((-a) \div b)

\* glm::normalize(v) = v * inversesqrt(dot(v, v)): for the zero vector the
\* factor is +inf and every component is 0 * inf = NaN.
normalize(v) ==
    IF IsNaN(v[1]) \/ IsNaN(v[2]) \/ IsNaN(v[3]) THEN <<NaN, NaN, NaN>>
    ELSE LET d == v[1] * v[1] + v[2] * v[2] + v[3] * v[3]
         IN  IF d = 0 THEN <<NaN, NaN, NaN>>
             ELSE LET len == ISqrt(d * 4)   \* twice the length, floor
                  IN  <<Quot(2 * v[1] * NormOne, len),
                        Quot(2 * v[2] * NormOne, len),
                        Quot(2 * v[3] * NormOne, len)>>

----------------------------------------------------------------------------
(* Height Sampler *)

\* Gradient noise of stb_perlin.h: a fixed function of the sample point with
\* values in [-1, 1].
stb_perlin_noise3(x, y, z) ==
    ((x * x + 3 * z + 2 * x * z + 5 * (z * z) + x + y) % (2 * NoiseOne + 1)) - NoiseOne

octaves == 6

RECURSIVE OctaveLoop(_, _, _, _, _, _)
\* the for loop of sampleHeight: i, height, amp, f and the translated x, z
OctaveLoop(i, height, amp, f, x, z) ==
    IF i >= octaves THEN height
    ELSE LET n == stb_perlin_noise3(x * f, 0, z * f)
         IN  OctaveLoop(i + 1, height + n * amp, amp \div 2, f * 2, x, z)

\* pow(height, 1.5f): NaN for a negative base
Pow15(h) == IF h < 0 THEN NaN ELSE (h * ISqrt(h * HOne)) \div HOne

\* sampleHeight with the offset subtracted from the sample point
sampleHeightSubtract(x, z, offsetX, offsetZ, amplitude, freq) ==
    LET xs == x - offsetX
        zs == z - offsetZ
        sum == OctaveLoop(0, 0, One, freq, xs, zs)
        normalized == (sum + HOne) \div 2
    IN  FMul(Pow15(normalized), amplitude)

sampleHeight(x, z, offsetX, offsetZ, amplitude, freq) ==
    LET xs == x + offsetX
        zs == z + offsetZ
        sum == OctaveLoop(0, 0, One, freq, xs, zs)
        normalized == (sum + HOne) \div 2
    IN  FMul(Pow15(normalized), amplitude)

----------------------------------------------------------------------------
(* Terrain generator *)

\* a clear() that is left out
ClearKeep(v) == v

\* std::vector::clear
Clear(v) == << >>

RECURSIVE BuildHeights(_, _, _, _, _, _, _, _)
\* the heights loops, k = z * N + x: element k of the grid is hs[k + 1]
BuildHeights(hs, k, N, scale, offsetX, offsetZ, amplitude, freq) ==
    IF k >= N * N THEN hs
    ELSE BuildHeights(Append(hs, sampleHeight((k % N) * scale, (k \div N) * scale,
                                              offsetX, offsetZ, amplitude, freq)),
                      k + 1, N, scale, offsetX, offsetZ, amplitude, freq)

\* heights[i]; the vector has no element outside 0 .. size-1, and reading one
\* is undefined
ReadHeight(h, i) == IF i >= 0 /\ i < Len(h) THEN h[i + 1] ELSE NaN

\* neighbour look-up whose left test is x >= 0
NeighbourIdxOffByOne(x, z, N) ==
    [l |-> IF x >= 0    THEN z * N + (x - 1) ELSE z * N + x,
     r |-> IF x < N - 1 THEN z * N + (x + 1) ELSE z * N + x,
     d |-> IF z > 0     THEN (z - 1) * N + x ELSE z * N + x,
     u |-> IF z < N - 1 THEN (z + 1) * N + x ELSE z * N + x]

\* the elements of `heights` read for the normal of lattice point (x, z)
NeighbourIdx(x, z, N) ==
    [l |-> IF x > 0     THEN z * N + (x - 1) ELSE z * N + x,
     r |-> IF x < N - 1 THEN z * N + (x + 1) ELSE z * N + x,
     d |-> IF z > 0     THEN (z - 1) * N + x ELSE z * N + x,
     u |-> IF z < N - 1 THEN (z + 1) * N + x ELSE z * N + x]

\* the 8 floats pushed for lattice point (x, z)
Vertex(x, z, N, scale, h) ==
    LET px == (x - N \div 2) * scale
        pz == (z - N \div 2) * scale
        py == ReadHeight(h, z * N + x)
        nb == NeighbourIdx(x, z, N)
        normal == normalize(<<FSub(ReadHeight(h, nb.l), ReadHeight(h, nb.r)),
                              2 * scale,
                              FSub(ReadHeight(h, nb.d), ReadHeight(h, nb.u))>>)
        u == IF N - 1 = 0 THEN NaN ELSE (x * TexOne) \div (N - 1)
        v == IF N - 1 = 0 THEN NaN ELSE (z * TexOne) \div (N - 1)
    IN  <<px, py, pz, normal[1], normal[2], normal[3], u, v>>

RECURSIVE BuildVertices(_, _, _, _, _)
\* the vertex loops, k = z * N + x
BuildVertices(vs, k, N, scale, h) ==
    IF k >= N * N THEN vs
    ELSE BuildVertices(vs \o Vertex(k % N, k \div N, N, scale, h),
                       k + 1, N, scale, h)

\* a quad whose fourth corner repeats the third
QuadDegenerate(x, z, N) ==
    LET i0 == z * N + x
        i1 == z * N + (x + 1)
        i2 == (z + 1) * N + x
        i3 == (z + 1) * N + x
    IN  <<i0, i2, i1, i1, i2, i3>>

\* a quad whose first triangle is wound the other way
QuadSwapped(x, z, N) ==
    LET i0 == z * N + x
        i1 == z * N + (x + 1)
        i2 == (z + 1) * N + x
        i3 == (z + 1) * N + (x + 1)
    IN  <<i0, i1, i2, i1, i2, i3>>

\* the 6 indices pushed for cell (x, z)
Quad(x, z, N) ==
    LET i0 == z * N + x
        i1 == z * N + (x + 1)
        i2 == (z + 1) * N + x
        i3 == (z + 1) * N + (x + 1)
    IN  <<i0, i2, i1, i1, i2, i3>>

RECURSIVE BuildIndices(_, _, _)
\* the index loops, c = z * (N - 1) + x
BuildIndices(is, c, N) ==
    IF N - 1 <= 0 \/ c >= (N - 1) * (N - 1) THEN is
    ELSE BuildIndices(is \o Quad(c % (N - 1), c \div (N - 1), N), c + 1, N)

generateTerrain(vs, is, N, scale, offsetX, offsetZ, amplitude, freq) ==
    LET h == BuildHeights(<< >>, 0, N, scale, offsetX, offsetZ, amplitude, freq)
    IN  [vertices |-> BuildVertices(Clear(vs), 0, N, scale, h),
         indices  |-> BuildIndices(Clear(is), 0, N),
         heights  |-> h]

----------------------------------------------------------------------------
(* The generator called directly, on output vectors that are reused *)

GenIdle ==
    /\ gN = 0 /\ gScale = 0 /\ gOffsetX = 0 /\ gOffsetZ = 0
    /\ gAmplitude = 1 /\ gFreq = 1
    /\ vertices = << >> /\ indices = << >> /\ heights = << >> /\ calls = 0
    /\ outcome = "none"

Scales == {0, 1, 2}      \* cell spacings for direct calls
GenOffsets == {-1, 0, 1} \* scroll offsets for direct calls
Amplitudes == {1, 3}     \* vertical scales for direct calls
Freqs == {1, 2}          \* base frequencies for direct calls

\* a call of generateTerrain with the present arguments
GenCall(ox, oz) ==
    LET gen == generateTerrain(vertices, indices, gN, gScale, ox, oz,
                               gAmplitude, gFreq)
    IN  /\ vertices' = gen.vertices
        /\ indices' = gen.indices
        /\ heights' = gen.heights
        /\ gOffsetX' = ox
        /\ gOffsetZ' = oz
        /\ outcome' = "returned"   \* the function has no other exit

\* generateTerrain called with a scroll offset of the caller's choice
GenerateFresh ==
    \E ox \in GenOffsets, oz \in GenOffsets :
        /\ calls = 0 \/ ox # gOffsetX \/ oz # gOffsetZ
        /\ GenCall(ox, oz)
        /\ calls' = 1
        /\ UNCHANGED <<gN, gScale, gAmplitude, gFreq, loopVars>>

\* generateTerrain called again with the offset unchanged
GenerateAgain ==
    /\ calls > 0
    /\ calls < MaxCalls
    /\ GenCall(gOffsetX, gOffsetZ)
    /\ calls' = calls + 1
    /\ UNCHANGED <<gN, gScale, gAmplitude, gFreq, loopVars>>

----------------------------------------------------------------------------
(* The render loop of main *)

\* terrain state of the program, in the units of the model
GRID_N == 2
terrainScale == 7
terrainAmplitude == 30
terrainFreq == 1
\* the epsilon 1e-6f of the offset comparison; processInput moves the offset
\* by moveSpeed * deltaTime = 60 quanta per unit of frame time
EPS == 90

Keys == {"ESCAPE", "W", "S", "A", "D", "UP", "DOWN", "LEFT", "RIGHT"}
\* the sets of keys held down that glfwPollEvents may report
KeyStates ==
    {{k} : k \in Keys} \cup
    {{}, {"UP", "RIGHT"}, {"W", "S"}, {"LEFT", "D"}, {"DOWN", "A", "ESCAPE"}}
DeltaTimes == 0 .. MaxDelta

\* glBufferData: the buffer is replaced by a copy of the data
BufferData(data) == data

\* glBufferSubData at offset 0: overwrites the first Len(data) elements; a
\* range beyond the buffer's size is GL_INVALID_VALUE and changes nothing
BufferSubData(buf, data) ==
    IF Len(data) > Len(buf) THEN buf
    ELSE data \o SubSeq(buf, Len(data) + 1, Len(buf))

\* what processInput leaves in terrainOffsetX, terrainOffsetZ and the
\* window's close flag (the camera it also moves has no part in the terrain)
processInput(ks, dt, offX, offZ, close) ==
    LET moveSpeed == 20 * (terrainAmplitude \div 10)
        z1 == IF "UP" \in ks \/ "W" \in ks THEN offZ - moveSpeed * dt ELSE offZ
        z2 == IF "DOWN" \in ks \/ "S" \in ks THEN z1 + moveSpeed * dt ELSE z1
        x1 == IF "LEFT" \in ks \/ "A" \in ks THEN offX - moveSpeed * dt ELSE offX
        x2 == IF "RIGHT" \in ks \/ "D" \in ks THEN x1 + moveSpeed * dt ELSE x1
    IN  [offsetX |-> x2, offsetZ |-> z2,
         close |-> close \/ "ESCAPE" \in ks]

LoopIdle ==
    /\ pc = "startup"
    /\ keys = {}
    /\ deltaTime = 0
    /\ terrainOffsetX = 0 /\ terrainOffsetZ = 0
    /\ lastOffsetX = 0 /\ lastOffsetZ = 0
    /\ lastInit = FALSE
    /\ terrainVertices = << >> /\ terrainIndices = << >>
    /\ terrainIndexCount = 0
    /\ vbo = << >> /\ ebo = << >>
    /\ shouldClose = FALSE
    /\ regens = 0 /\ uploads = 0
    /\ usedOffsetX = 0 /\ usedOffsetZ = 0

\* initial terrain data and the upload of both buffers
Startup ==
    /\ pc = "startup"
    /\ LET gen == generateTerrain(terrainVertices, terrainIndices, GRID_N,
                                  terrainScale, terrainOffsetX, terrainOffsetZ,
                                  terrainAmplitude, terrainFreq)
       IN  /\ terrainVertices' = gen.vertices
           /\ terrainIndices' = gen.indices
           /\ terrainIndexCount' = Len(gen.indices)
           /\ vbo' = BufferData(gen.vertices)
           /\ ebo' = BufferData(gen.indices)
    /\ usedOffsetX' = terrainOffsetX
    /\ usedOffsetZ' = terrainOffsetZ
    /\ regens' = regens + 1
    /\ uploads' = uploads + 1
    /\ pc' = "loop"
    /\ UNCHANGED <<keys, deltaTime, terrainOffsetX, terrainOffsetZ,
                   lastOffsetX, lastOffsetZ, lastInit, shouldClose, genVars>>

\* loop test, frame timing and processInput
FrameInput ==
    /\ pc = "loop"
    /\ ~shouldClose
    /\ \E dt \in DeltaTimes :
        LET r == processInput(keys, dt, terrainOffsetX, terrainOffsetZ,
                              shouldClose)
        IN  /\ Abs(r.offsetX) <= MaxOffset
            /\ Abs(r.offsetZ) <= MaxOffset
            /\ deltaTime' = dt
            /\ terrainOffsetX' = r.offsetX
            /\ terrainOffsetZ' = r.offsetZ
            /\ shouldClose' = r.close
    /\ regens' = 0
    /\ uploads' = 0
    /\ pc' = "update"
    /\ UNCHANGED <<keys, lastOffsetX, lastOffsetZ, lastInit, terrainVertices,
                   terrainIndices, terrainIndexCount, vbo, ebo,
                   usedOffsetX, usedOffsetZ, genVars>>

\* an offset comparison that needs both axes to move
OffsetsChangedBoth(lx, lz, ox, oz) == Abs(lx - ox) > EPS /\ Abs(lz - oz) > EPS

\* the offset comparison of the render loop
OffsetsChanged(lx, lz, ox, oz) == Abs(lx - ox) > EPS \/ Abs(lz - oz) > EPS

\* a static lastOffset that is assigned in every frame
NextLastAlways(regenerated, last, current) == current

\* a static lastOffset after the if statement: assigned only inside it
NextLast(regenerated, last, current) == IF regenerated THEN current ELSE last

\* "update terrain if offsets changed"; the statics lastOffsetX/Z take the
\* present offsets the first time control passes their declaration
UpdateTerrain ==
    /\ pc = "update"
    /\ LET lx == IF lastInit THEN lastOffsetX ELSE terrainOffsetX
           lz == IF lastInit THEN lastOffsetZ ELSE terrainOffsetZ
       IN  IF OffsetsChanged(lx, lz, terrainOffsetX, terrainOffsetZ)
           THEN LET gen == generateTerrain(terrainVertices, terrainIndices,
                                           GRID_N, terrainScale,
                                           terrainOffsetX, terrainOffsetZ,
                                           terrainAmplitude, terrainFreq)
                IN  /\ terrainVertices' = gen.vertices
                    /\ terrainIndices' = gen.indices
                    /\ vbo' = BufferSubData(vbo, gen.vertices)
                    /\ lastOffsetX' = NextLast(TRUE, lx, terrainOffsetX)
                    /\ lastOffsetZ' = NextLast(TRUE, lz, terrainOffsetZ)
                    /\ usedOffsetX' = terrainOffsetX
                    /\ usedOffsetZ' = terrainOffsetZ
                    /\ regens' = regens + 1
                    /\ uploads' = uploads + 1
           ELSE /\ lastOffsetX' = NextLast(FALSE, lx, terrainOffsetX)
                /\ lastOffsetZ' = NextLast(FALSE, lz, terrainOffsetZ)
                /\ UNCHANGED <<terrainVertices, terrainIndices, vbo,
                               usedOffsetX, usedOffsetZ, regens,
                               uploads>>
    /\ lastInit' = TRUE
    /\ pc' = "draw"
    /\ UNCHANGED <<keys, deltaTime, terrainOffsetX, terrainOffsetZ,
                   terrainIndexCount, ebo, shouldClose, genVars>>

\* glDrawElements of terrainIndexCount indices from the bound buffers
Draw ==
    /\ pc = "draw"
    /\ pc' = "poll"
    /\ UNCHANGED <<keys, deltaTime, terrainOffsetX, terrainOffsetZ,
                   lastOffsetX, lastOffsetZ, lastInit, terrainVertices,
                   terrainIndices, terrainIndexCount, vbo, ebo, shouldClose,
                   regens, uploads, usedOffsetX, usedOffsetZ,
                   genVars>>

\* glfwSwapBuffers and glfwPollEvents: the key states are brought up to date
PollEvents ==
    /\ pc = "poll"
    /\ \E ks \in KeyStates : keys' = ks
    /\ pc' = "loop"
    /\ UNCHANGED <<deltaTime, terrainOffsetX, terrainOffsetZ,
                   lastOffsetX, lastOffsetZ, lastInit, terrainVertices,
                   terrainIndices, terrainIndexCount, vbo, ebo, shouldClose,
                   regens, uploads, usedOffsetX, usedOffsetZ,
                   genVars>>

\* the loop ends: the buffers are deleted
Cleanup ==
    /\ pc = "loop"
    /\ shouldClose
    /\ vbo' = << >>
    /\ ebo' = << >>
    /\ pc' = "done"
    /\ UNCHANGED <<keys, deltaTime, terrainOffsetX, terrainOffsetZ,
                   lastOffsetX, lastOffsetZ, lastInit, terrainVertices,
                   terrainIndices, terrainIndexCount, shouldClose,
                   regens, uploads, usedOffsetX, usedOffsetZ,
                   genVars>>

----------------------------------------------------------------------------
(* Specifications *)

Init == LoopIdle /\ GenIdle
Next == Startup \/ FrameInput \/ UpdateTerrain \/ Draw \/ PollEvents \/ Cleanup
Spec == Init /\ [][Next]_vars

InitGen ==
    /\ LoopIdle
    /\ gN \in 0 .. MaxN
    /\ gScale \in Scales
    /\ gAmplitude \in Amplitudes
    /\ gFreq \in Freqs
    /\ gOffsetX = 0 /\ gOffsetZ = 0
    /\ vertices = << >> /\ indices = << >> /\ heights = << >> /\ calls = 0
    /\ outcome = "none"
NextGen == GenerateFresh \/ GenerateAgain
SpecGen == InitGen /\ [][NextGen]_vars

----------------------------------------------------------------------------
(* Properties *)

\* floats k*8 .. k*8+7 of a vertex stream
VertexAt(vs, k) == SubSeq(vs, 8 * k + 1, 8 * k + 8)
\* the texture coordinates of a vertex stream, vertex by vertex
TexCoords(vs) == [k \in 0 .. (Len(vs) \div 8 - 1) |-> <<vs[8 * k + 7], vs[8 * k + 8]>>]
Lattice(N) == 0 .. (N - 1)

\* C1: for N >= 2, after any call of generateTerrain (repeated calls on the
\* same vectors included) there are N*N vertices of 8 floats, 6*(N-1)*(N-1)
\* indices, every index is in [0, N*N) and the three indices of every
\* triangle are pairwise distinct.
C1_MeshIntegrity ==
    (calls > 0 /\ gN >= 2) =>
        /\ Len(vertices) = gN * gN * 8
        /\ Len(indices) = 6 * (gN - 1) * (gN - 1)
        /\ \A i \in 1 .. Len(indices) : indices[i] >= 0 /\ indices[i] < gN * gN
        /\ \A t \in 0 .. (Len(indices) \div 3 - 1) :
              /\ indices[3 * t + 1] # indices[3 * t + 2]
              /\ indices[3 * t + 2] # indices[3 * t + 3]
              /\ indices[3 * t + 1] # indices[3 * t + 3]
C1_Witness == calls = 2 /\ gN = 3 /\ Len(indices) = 24 /\ Len(vertices) = 72

\* C2: the terrain is generated and uploaded once before the first frame; in
\* every frame the update step regenerates and uploads exactly once when the
\* scroll offset differs from the last-used offset by more than the epsilon
\* on the X or the Z axis, and otherwise neither regenerates nor uploads; no
\* other step of a frame touches the mesh or the vertex buffer.
C2_RegenGate ==
    [][ /\ (pc = "startup" => regens' = 1 /\ uploads' = 1)
        /\ (pc = "update" =>
              IF \/ Abs(usedOffsetX - terrainOffsetX) > EPS
                 \/ Abs(usedOffsetZ - terrainOffsetZ) > EPS
              THEN /\ regens' = 1 /\ uploads' = 1
                   /\ usedOffsetX' = terrainOffsetX
                   /\ usedOffsetZ' = terrainOffsetZ
                   /\ vbo' = terrainVertices'
              ELSE /\ regens' = 0 /\ uploads' = 0
                   /\ terrainVertices' = terrainVertices
                   /\ vbo' = vbo
                   /\ usedOffsetX' = usedOffsetX
                   /\ usedOffsetZ' = usedOffsetZ)
        /\ (pc \in {"draw", "poll"} =>
              /\ regens' = regens /\ uploads' = uploads
              /\ terrainVertices' = terrainVertices /\ vbo' = vbo)
        /\ (pc = "loop" /\ pc' = "update" =>
              /\ regens' = 0 /\ uploads' = 0
              /\ terrainVertices' = terrainVertices /\ vbo' = vbo)
      ]_vars
C2_Witness ==
    /\ pc = "draw" /\ regens = 1 /\ uploads = 1
    /\ Abs(usedOffsetX) > EPS /\ usedOffsetZ = 0

\* C3: a call of generateTerrain leaves in the reused output vectors exactly
\* the mesh that a single call on empty vectors produces for the same
\* arguments, also when it repeats the previous call.
C3_Idempotent ==
    calls > 0 =>
        LET single == generateTerrain(<< >>, << >>, gN, gScale, gOffsetX,
                                      gOffsetZ, gAmplitude, gFreq)
        IN  vertices = single.vertices /\ indices = single.indices
C3_Witness == calls = MaxCalls /\ gN = 2 /\ gOffsetX = 1 /\ Len(vertices) = 32

\* C4: whatever the offset, amplitude and frequency, generateTerrain yields
\* for GRID_N the index sequence and texture coordinates uploaded at startup:
\* at every draw call the index buffer equals the present index vector,
\* terrainIndexCount is its length, each index addresses a vertex of the
\* vertex buffer, and the texture coordinates in the vertex buffer are those
\* of the startup mesh.
C4_StaticIndices ==
    pc = "draw" =>
        LET start == generateTerrain(<< >>, << >>, GRID_N, terrainScale, 0, 0,
                                     terrainAmplitude, terrainFreq)
        IN  /\ ebo = terrainIndices
            /\ ebo = start.indices
            /\ terrainIndexCount = Len(ebo)
            /\ \A i \in 1 .. Len(ebo) : ebo[i] >= 0 /\ ebo[i] < Len(vbo) \div 8
            /\ TexCoords(vbo) = TexCoords(start.vertices)
            /\ \A a \in Amplitudes, f \in Freqs :
                  LET other == generateTerrain(<< >>, << >>, GRID_N,
                                   terrainScale, terrainOffsetX,
                                   terrainOffsetZ, a, f)
                  IN  /\ other.indices = ebo
                      /\ TexCoords(other.vertices) = TexCoords(vbo)
C4_Witness ==
    /\ pc = "draw" /\ regens = 1
    /\ usedOffsetZ # 0
    /\ vbo # generateTerrain(<< >>, << >>, GRID_N, terrainScale, 0, 0,
                             terrainAmplitude, terrainFreq).vertices

\* C5: a call with N < 2 ends with an error outcome instead of returning.
C5_RejectsSmallN == (calls > 0 /\ gN < 2) => outcome = "error"

\* the un-normalized normal of lattice point (x, z) as the specification
\* states it, from the grid of the last call
RawNormal(x, z) ==
    LET own == heights[z * gN + x + 1]
        hLeft  == IF x - 1 \in Lattice(gN) THEN heights[z * gN + (x - 1) + 1] ELSE own
        hRight == IF x + 1 \in Lattice(gN) THEN heights[z * gN + (x + 1) + 1] ELSE own
        hDown  == IF z - 1 \in Lattice(gN) THEN heights[(z - 1) * gN + x + 1] ELSE own
        hUp    == IF z + 1 \in Lattice(gN) THEN heights[(z + 1) * gN + x + 1] ELSE own
    IN  <<FSub(hLeft, hRight), 2 * gScale, FSub(hDown, hUp)>>

\* the normal emitted for lattice point (x, z)
EmittedNormal(x, z) == SubSeq(vertices, 8 * (z * gN + x) + 4, 8 * (z * gN + x) + 6)

\* C6: where the un-normalized normal is the zero vector, the emitted normal
\* is the up vector (0, 1, 0).
C6_UpFallback ==
    calls > 0 =>
        \A x \in Lattice(gN), z \in Lattice(gN) :
            RawNormal(x, z) = <<0, 0, 0>> =>
                EmittedNormal(x, z) = <<0, NormOne, 0>>

\* C7: the offset is a pure translation of the sample point: each height
\* sampled at (x, z) with offset (dx, dz) equals the sample at (x + dx, z)
\* with offset (0, dz) and the sample at (x, z + dz) with offset (dx, 0);
\* sampleHeight(x, z, d, 0, a, f) = sampleHeight(x + d, z, 0, 0, a, f), and
\* likewise along Z.
C7_OffsetTranslation ==
    calls > 0 =>
        \A x \in Lattice(gN), z \in Lattice(gN) :
            /\ heights[z * gN + x + 1] =
                  sampleHeight(x * gScale + gOffsetX, z * gScale, 0, gOffsetZ,
                               gAmplitude, gFreq)
            /\ heights[z * gN + x + 1] =
                  sampleHeight(x * gScale, z * gScale + gOffsetZ, gOffsetX, 0,
                               gAmplitude, gFreq)
            /\ \A d \in GenOffsets :
                  /\ sampleHeight(x, z, d, 0, gAmplitude, gFreq) =
                        sampleHeight(x + d, z, 0, 0, gAmplitude, gFreq)
                  /\ sampleHeight(x, z, 0, d, gAmplitude, gFreq) =
                        sampleHeight(x, z + d, 0, 0, gAmplitude, gFreq)
C7_Witness ==
    /\ calls > 0 /\ gN = 3 /\ gScale = 2 /\ gOffsetX = 1 /\ gOffsetZ = -1
    /\ \E i \in 1 .. Len(heights) : ~IsNaN(heights[i]) /\ heights[i] # heights[1]

\* C8: at every draw call the vertex buffer holds the complete mesh of the
\* last-used offset, the static last offset is that offset, and it is
\* within the epsilon of the present scroll offset on both axes.
C8_DrawnMeshCurrent ==
    pc = "draw" =>
        /\ vbo = generateTerrain(<< >>, << >>, GRID_N, terrainScale,
                                 usedOffsetX, usedOffsetZ, terrainAmplitude,
                                 terrainFreq).vertices
        /\ vbo = terrainVertices
        /\ lastOffsetX = usedOffsetX
        /\ lastOffsetZ = usedOffsetZ
        /\ Abs(lastOffsetX - terrainOffsetX) <= EPS
        /\ Abs(lastOffsetZ - terrainOffsetZ) <= EPS
C8_Witness ==
    /\ pc = "draw" /\ regens = 0
    /\ usedOffsetX # 0
    /\ terrainOffsetX # usedOffsetX

\* C9: for N >= 2 the index stream is, cell by cell in row-major order, the
\* six indices i0, i2, i1, i1, i2, i3 of the cell's corners, and index
\* z*N + x is the position in the vertex stream of the vertex emitted for
\* lattice point (x, z).
C9_IndexPattern ==
    (calls > 0 /\ gN >= 2) =>
        /\ Len(indices) = 6 * (gN - 1) * (gN - 1)
        /\ \A x \in 0 .. (gN - 2), z \in 0 .. (gN - 2) :
              LET c == 6 * (z * (gN - 1) + x)
                  i0 == z * gN + x
                  i1 == z * gN + x + 1
                  i2 == (z + 1) * gN + x
                  i3 == (z + 1) * gN + x + 1
              IN  SubSeq(indices, c + 1, c + 6) = <<i0, i2, i1, i1, i2, i3>>
        /\ \A x \in Lattice(gN), z \in Lattice(gN) :
              LET vtx == VertexAt(vertices, z * gN + x)
              IN  /\ Len(vtx) = 8
                  /\ vtx[1] = (x - gN \div 2) * gScale
                  /\ vtx[2] = heights[z * gN + x + 1]
                  /\ vtx[3] = (z - gN \div 2) * gScale
C9_Witness ==
    /\ calls > 0 /\ gN = 3 /\ gScale = 1
    /\ SubSeq(indices, 19, 24) = <<4, 7, 5, 5, 7, 8>>

\* C10: the normal of every lattice point reads only heights inside the
\* grid: the neighbour's height where the neighbour exists, the point's own
\* height otherwise; the emitted normal is the normalization of
\* (hLeft - hRight, 2*scale, hDown - hUp).
C10_ClampedNeighbours ==
    calls > 0 =>
        \A x \in Lattice(gN), z \in Lattice(gN) :
            LET nb == NeighbourIdx(x, z, gN)
                own == z * gN + x
            IN  /\ \A i \in {nb.l, nb.r, nb.d, nb.u} : i >= 0 /\ i < gN * gN
                /\ nb.l = IF x - 1 \in Lattice(gN) THEN z * gN + (x - 1) ELSE own
                /\ nb.r = IF x + 1 \in Lattice(gN) THEN z * gN + (x + 1) ELSE own
                /\ nb.d = IF z - 1 \in Lattice(gN) THEN (z - 1) * gN + x ELSE own
                /\ nb.u = IF z + 1 \in Lattice(gN) THEN (z + 1) * gN + x ELSE own
                /\ EmittedNormal(x, z) = normalize(RawNormal(x, z))
C10_Witness ==
    /\ calls > 0 /\ gN = 3 /\ gScale = 1
    /\ ~IsNaN(vertices[8 * 4 + 4])
    /\ vertices[8 * 4 + 4] # 0

====
